---- MODULE Spec2Model ----
(***************************************************************************)
(* Blog content API: token authentication (middleware/auth.js), the auth   *)
(* router (register, login), the posts router and the categories router.   *)
(* Every handler is translated from its source; the document store is the  *)
(* collections users / posts / cats, and a store operation may fail (the   *)
(* `fault` input of each request names the operation that rejects).        *)
(***************************************************************************)
EXTENDS Integers, Sequences, FiniteSets, TLC

VARIABLES users, userSeq, posts, postSeq, cats, catSeq, clock, issued, last, inflight

vars == <<users, userSeq, posts, postSeq, cats, catSeq, clock, issued, last, inflight>>

(***************************************************************************)
(* Bounds of the model.                                                    *)
(***************************************************************************)
MaxUsers == 2
MaxPosts == 2
MaxCats == 2
MaxComments == 1
MaxClock == 8
MaxTokens == 2
MaxInflight == 2
MaxTotal == 12
MaxParam == 5

(***************************************************************************)
(* Program constants.                                                      *)
(***************************************************************************)
\* expiresIn: '7d' (days)
TokenTTL == 7
\* isLength({ max: 100 }) on title
MaxTitle == 100
\* parseInt(req.query.page) || 1
DefaultPage == 1
\* parseInt(req.query.limit) || 10
DefaultLimit == 10
\* body('username') isLength({ min: 3, max: 30 })
MinUsername == 3
MaxUsername == 30
\* body('password') isLength({ min: 6 })
MinPassword == 6

(***************************************************************************)
(* Strings and identifiers.                                                *)
(***************************************************************************)
Digits == <<"1", "2", "3", "4", "5", "6", "7", "8", "9">>

\* ObjectId.prototype.toString of the n-th identity: user._id in the token
\* payload, req.user.id, post.author.toString()
UserOidStr(n) == "u" \o Digits[n]

\* the canonical string of the n-th post id (the :id route parameter)
PostOidStr(n) == "p" \o Digits[n]

\* casting a string to the ObjectId of an identity; 0 is a cast error
CastUserOid(s) ==
  IF \E n \in 1..Len(Digits) : UserOidStr(n) = s
  THEN CHOOSE n \in 1..Len(Digits) : UserOidStr(n) = s
  ELSE 0

\* casting the :id parameter to a post ObjectId; 0 is a cast error
CastPostOid(s) ==
  IF \E n \in 1..Len(Digits) : PostOidStr(n) = s
  THEN CHOOSE n \in 1..Len(Digits) : PostOidStr(n) = s
  ELSE 0

\* String.prototype.startsWith
StartsWith(s, prefix) ==
  /\ Len(s) >= Len(prefix)
  /\ SubSeq(s, 1, Len(prefix)) = prefix

(***************************************************************************)
(* Responses: res.status(n).json(body), or next(err).                      *)
(***************************************************************************)
NoRes == [via |-> "none", status |-> 0, success |-> FALSE, error |-> "", errors |-> <<>>]

\* res.status(status).json({ success: false, error: msg })
Err(status, msg) ==
  [via |-> "res", status |-> status, success |-> FALSE, error |-> msg, errors |-> <<>>]

\* res.status(400).json({ success: false, errors: errors.array() })
Invalid(errs) ==
  [via |-> "res", status |-> 400, success |-> FALSE, error |-> "", errors |-> errs]

\* res.status(status).json({ success: true, ... })
Ok(status) ==
  [via |-> "res", status |-> status, success |-> TRUE, error |-> "", errors |-> <<>>]

\* next(err): the generic fallback handler
Fallback(err) ==
  [via |-> "next", status |-> 500, success |-> FALSE, error |-> err, errors |-> <<>>]

(***************************************************************************)
(* Token service.                                                          *)
(***************************************************************************)
\* process.env.JWT_SECRET
Secret == "JWT_SECRET"

\* the signature of a payload under a key
Sign(payload, key) == [p |-> payload, k |-> key]

\* jwt.sign({ id: user._id }, process.env.JWT_SECRET, { expiresIn: '7d' })
generateToken(uid, now) ==
  LET payload == [id |-> UserOidStr(uid), iat |-> now, exp |-> now + TokenTTL]
  IN  [wf |-> TRUE, payload |-> payload, sig |-> Sign(payload, Secret)]

\* jwt.verify(token, process.env.JWT_SECRET) does not throw
VerifyOk(t, now) ==
  /\ t.wf
  /\ t.sig = Sign(t.payload, Secret)
  /\ now < t.payload.exp

(***************************************************************************)
(* Credential store (the User model: lookups, password hashing and match). *)
(***************************************************************************)
\* the pre-save password hashing of the User model
Hash(pw) == "hash:" \o pw

\* user.matchPassword(password)
matchPassword(user, pw) == Hash(pw) = user.password

\* User.findById(id): the set holding the identity, or {} (null)
FindUserById(us, uid) == {u \in us : u.id = uid}

\* User.findOne({ email }): the set holding the identity, or {} (null)
FindUserByEmail(us, email) == {u \in us : u.email = email}

(***************************************************************************)
(* Auth gate: middleware/auth.js.  A header is what split(' ') yields: the *)
(* first segment (a string) and the segments after it (tokens; a segment   *)
(* that is no JWT is a token with wf = FALSE).                             *)
(***************************************************************************)
NoHeader == [present |-> FALSE, scheme |-> "", rest |-> <<>>]

\* req.headers.authorization is truthy
Truthy(hdr) == hdr.present /\ (hdr.scheme # "" \/ Len(hdr.rest) > 0)

\* req.headers.authorization && req.headers.authorization.startsWith('Bearer')
HasBearer(hdr) == Truthy(hdr) /\ StartsWith(hdr.scheme, "Bearer")

\* the catch block of the gate
GateCatch == [pass |-> FALSE, user |-> 0, threw |-> FALSE, res |-> Err(401, "Not authorized")]

\* await User.findById(decoded.id).select('-password'), then the null check
GateLookup(us, t, fault) ==
  LET uid == CastUserOid(t.payload.id)
      found == FindUserById(us, uid)
  IN  IF fault = "gate" \/ uid = 0
      THEN [GateCatch EXCEPT !.threw = (fault = "gate")]
      ELSE IF found = {}
      THEN [pass |-> FALSE, user |-> 0, threw |-> FALSE, res |-> Err(401, "User not found")]
      ELSE [pass |-> TRUE, user |-> uid, threw |-> FALSE, res |-> NoRes]

\* the gate without the test of the scheme
authMiddlewareAnyScheme(hdr, us, now, fault) ==
  IF Truthy(hdr)
  THEN IF Len(hdr.rest) = 0
       THEN GateCatch
       ELSE IF ~VerifyOk(hdr.rest[1], now)
       THEN GateCatch
       ELSE GateLookup(us, hdr.rest[1], fault)
  ELSE [pass |-> FALSE, user |-> 0, threw |-> FALSE, res |-> Err(401, "No token provided")]

\* authMiddleware(req, res, next)
authMiddleware(hdr, us, now, fault) ==
  IF HasBearer(hdr)
  THEN IF Len(hdr.rest) = 0
       THEN GateCatch
       ELSE IF ~VerifyOk(hdr.rest[1], now)
       THEN GateCatch
       ELSE GateLookup(us, hdr.rest[1], fault)
  ELSE [pass |-> FALSE, user |-> 0, threw |-> FALSE, res |-> Err(401, "No token provided")]

(***************************************************************************)
(* Field validators (express-validator chains).                            *)
(***************************************************************************)
\* notEmpty()
notEmpty(s) == s # ""

\* isLength({ min, max })
isLength(s, min, max) == Len(s) >= min /\ Len(s) <= max

\* isEmail(): a local part, an @, a domain
isEmail(s) == \E i \in 2..(Len(s) - 1) : SubSeq(s, i, i) = "@"

\* errors.array(): the violated fields, in the order of the chains
ErrorsOf(checks) ==
  LET F[i \in 0..Len(checks)] ==
        IF i = 0 THEN <<>>
        ELSE IF checks[i][2] THEN F[i - 1] ELSE Append(F[i - 1], checks[i][1])
  IN  F[Len(checks)]

(***************************************************************************)
(* Auth router: POST /register, POST /login.                               *)
(***************************************************************************)
\* the chains of POST /register
RegisterErrors(username, email, password) ==
  ErrorsOf(<< <<"username", notEmpty(username) /\ isLength(username, MinUsername, MaxUsername)>>,
              <<"email", isEmail(email)>>,
              <<"password", isLength(password, MinPassword, Len(password))>> >>)

\* the chains of POST /login
LoginErrors(email, password) ==
  ErrorsOf(<< <<"email", isEmail(email)>>, <<"password", notEmpty(password)>> >>)

\* the handler of POST /register: its response, the identity it saves and
\* the token it issues (sets of at most one element)
RegisterOutcome(us, seq, now, username, email, password, fault) ==
  LET errs == RegisterErrors(username, email, password)
      user == [id |-> seq + 1, username |-> username, email |-> email,
               password |-> Hash(password)]
      none == [res |-> NoRes, threw |-> "none", saved |-> {}, token |-> {}]
  IN  IF errs # <<>> THEN [none EXCEPT !.res = Invalid(errs)]
      ELSE IF fault = "find" THEN [none EXCEPT !.res = Fallback("store"), !.threw = "find"]
      ELSE IF FindUserByEmail(us, email) # {}
      THEN [none EXCEPT !.res = Err(400, "Email already in use")]
      ELSE IF fault = "save" THEN [none EXCEPT !.res = Fallback("store"), !.threw = "save"]
      ELSE [res |-> Ok(201), threw |-> "none", saved |-> {user},
            token |-> {generateToken(user.id, now)}]

\* the login handler telling an unknown email from a wrong password
LoginOutcomeTelling(us, now, email, password, fault) ==
  LET errs == LoginErrors(email, password)
      found == FindUserByEmail(us, email)
      none == [res |-> NoRes, threw |-> "none", token |-> {}]
  IN  IF errs # <<>> THEN [none EXCEPT !.res = Invalid(errs)]
      ELSE IF fault = "find" THEN [none EXCEPT !.res = Fallback("store"), !.threw = "find"]
      ELSE IF found = {} THEN [none EXCEPT !.res = Err(404, "User not found")]
      ELSE IF ~matchPassword(CHOOSE u \in found : TRUE, password)
      THEN [none EXCEPT !.res = Err(401, "Invalid credentials")]
      ELSE [res |-> Ok(200), threw |-> "none",
            token |-> {generateToken((CHOOSE u \in found : TRUE).id, now)}]

\* the handler of POST /login
LoginOutcome(us, now, email, password, fault) ==
  LET errs == LoginErrors(email, password)
      found == FindUserByEmail(us, email)
      none == [res |-> NoRes, threw |-> "none", token |-> {}]
  IN  IF errs # <<>> THEN [none EXCEPT !.res = Invalid(errs)]
      ELSE IF fault = "find" THEN [none EXCEPT !.res = Fallback("store"), !.threw = "find"]
      ELSE IF found = {} THEN [none EXCEPT !.res = Err(401, "Invalid credentials")]
      ELSE IF ~matchPassword(CHOOSE u \in found : TRUE, password)
      THEN [none EXCEPT !.res = Err(401, "Invalid credentials")]
      ELSE [res |-> Ok(200), threw |-> "none",
            token |-> {generateToken((CHOOSE u \in found : TRUE).id, now)}]

(***************************************************************************)
(* Category model and categories router: POST /api/categories.             *)
(***************************************************************************)
\* maxlength: [50, ...]
MaxCatName == 50

\* trim: true (String.prototype.trim, a setter run on documents and filters)
RECURSIVE Trim(_)
Trim(s) ==
  IF Len(s) = 0 THEN s
  ELSE IF SubSeq(s, 1, 1) = " " THEN Trim(SubSeq(s, 2, Len(s)))
  ELSE IF SubSeq(s, Len(s), Len(s)) = " " THEN Trim(SubSeq(s, 1, Len(s) - 1))
  ELSE s

\* required and maxlength of CategorySchema.name, run by save()
CategoryValid(name) == name # "" /\ Len(name) <= MaxCatName

\* unique: true: the unique index on name lets the insert through
UniqueIndexAdmits(cs, name) == \A c \in cs : c.name # name

\* the chain of POST /api/categories
CategoryErrors(name) == ErrorsOf(<< <<"name", notEmpty(name)>> >>)

\* await Category.findOne({ name: req.body.name })
CategoryFindOne(cs, name) == {c \in cs : c.name = Trim(name)}

\* new Category({ name }) and await category.save(): the response and the
\* collection afterwards
CategorySave(cs, seq, name, fault) ==
  LET doc == [id |-> seq + 1, name |-> Trim(name)]
  IN  IF ~CategoryValid(doc.name)
      THEN [res |-> Fallback("ValidationError"), threw |-> "none", cats |-> cs]
      ELSE IF fault = "save" THEN [res |-> Fallback("store"), threw |-> "save", cats |-> cs]
      ELSE IF ~UniqueIndexAdmits(cs, doc.name)
      THEN [res |-> Fallback("E11000 duplicate key"), threw |-> "none", cats |-> cs]
      ELSE [res |-> Ok(201), threw |-> "none", cats |-> cs \cup {doc}]

\* the handler of POST /api/categories up to its lookup: a response, or
\* NoRes when it goes on to save
CategoryCheck(cs, name, fault) ==
  LET errs == CategoryErrors(name)
  IN  IF errs # <<>> THEN [res |-> Invalid(errs), threw |-> "none"]
      ELSE IF fault = "find" THEN [res |-> Fallback("store"), threw |-> "find"]
      ELSE IF CategoryFindOne(cs, name) # {}
      THEN [res |-> Err(400, "Category already exists"), threw |-> "none"]
      ELSE [res |-> NoRes, threw |-> "none"]

\* the handler of POST /api/categories, run without interruption
CreateCategoryOutcome(cs, seq, name, fault) ==
  LET chk == CategoryCheck(cs, name, fault)
  IN  IF chk.res # NoRes THEN [res |-> chk.res, threw |-> chk.threw, cats |-> cs]
      ELSE CategorySave(cs, seq, name, fault)

(***************************************************************************)
(* Posts router.  A request body is a record of the fields it carries.     *)
(***************************************************************************)
Has(body, f) == f \in DOMAIN body

\* req.body.f, "" when the field is absent
Field(body, f) == IF Has(body, f) THEN body[f] ELSE ""

\* Post.findById(postId): the set holding the post, or {} (null)
FindPostById(ps, pid) == {p \in ps : p.id = pid}

\* the chains of POST /api/posts
CreatePostErrors(body) ==
  ErrorsOf(<< <<"title", notEmpty(Field(body, "title"))
                         /\ isLength(Field(body, "title"), 0, MaxTitle)>>,
              <<"content", notEmpty(Field(body, "content"))>>,
              <<"category", notEmpty(Field(body, "category"))>> >>)

\* the chains of PUT /api/posts/:id (every field optional())
UpdatePostErrors(body) ==
  ErrorsOf(<< <<"title", Has(body, "title") => isLength(body.title, 0, MaxTitle)>> >>)

\* the chain of POST /api/posts/:id/comments
CommentErrors(body) == ErrorsOf(<< <<"content", notEmpty(Field(body, "content"))>> >>)

NoPostOutcome(ps) ==
  [res |-> NoRes, threw |-> "none", posts |-> ps, found |-> FALSE, author |-> 0]

\* the handler of POST /api/posts
CreatePostOutcome(ps, seq, user, body, fault) ==
  LET errs == CreatePostErrors(body)
      postData == [id |-> seq + 1, title |-> body.title, content |-> body.content,
                   category |-> body.category, author |-> user, comments |-> <<>>,
                   createdAt |-> seq + 1]
      none == NoPostOutcome(ps)
  IN  IF errs # <<>> THEN [none EXCEPT !.res = Invalid(errs)]
      ELSE IF fault = "save" THEN [none EXCEPT !.res = Fallback("store"), !.threw = "save"]
      ELSE [none EXCEPT !.res = Ok(201), !.posts = ps \cup {postData}]

\* the ownership check left out
NotOwnerOmitted(post, user) == FALSE

\* post.author.toString() !== req.user.id
NotOwner(post, user) == UserOidStr(post.author) # UserOidStr(user)

\* Object.assign(post, req.body): author is cast to an ObjectId (0: cast error)
Assign(post, body) ==
  [post EXCEPT !.title = IF Has(body, "title") THEN body.title ELSE @,
               !.content = IF Has(body, "content") THEN body.content ELSE @,
               !.category = IF Has(body, "category") THEN body.category ELSE @,
               !.author = IF Has(body, "author") THEN CastUserOid(body.author) ELSE @]

\* the handler of PUT /api/posts/:id
UpdatePostOutcome(ps, user, idParam, body, fault) ==
  LET pid == CastPostOid(idParam)
      found == FindPostById(ps, pid)
      post == CHOOSE p \in found : TRUE
      errs == UpdatePostErrors(body)
      none == NoPostOutcome(ps)
      seen == [none EXCEPT !.found = TRUE, !.author = post.author]
  IN  IF fault = "find" THEN [none EXCEPT !.res = Fallback("store"), !.threw = "find"]
      ELSE IF pid = 0 THEN [none EXCEPT !.res = Fallback("CastError")]
      ELSE IF found = {} THEN [none EXCEPT !.res = Err(404, "Post not found")]
      ELSE IF NotOwner(post, user) THEN [seen EXCEPT !.res = Err(403, "Unauthorized")]
      ELSE IF errs # <<>> THEN [seen EXCEPT !.res = Invalid(errs)]
      ELSE IF Assign(post, body).author = 0
      THEN [seen EXCEPT !.res = Fallback("ValidationError")]
      ELSE IF fault = "save" THEN [seen EXCEPT !.res = Fallback("store"), !.threw = "save"]
      ELSE [seen EXCEPT !.res = Ok(200),
                        !.posts = (ps \ {post}) \cup {Assign(post, body)}]

\* the handler of DELETE /api/posts/:id
DeletePostOutcome(ps, user, idParam, fault) ==
  LET pid == CastPostOid(idParam)
      found == FindPostById(ps, pid)
      post == CHOOSE p \in found : TRUE
      none == NoPostOutcome(ps)
      seen == [none EXCEPT !.found = TRUE, !.author = post.author]
  IN  IF fault = "find" THEN [none EXCEPT !.res = Fallback("store"), !.threw = "find"]
      ELSE IF pid = 0 THEN [none EXCEPT !.res = Fallback("CastError")]
      ELSE IF found = {} THEN [none EXCEPT !.res = Err(404, "Post not found")]
      ELSE IF NotOwner(post, user) THEN [seen EXCEPT !.res = Err(403, "Unauthorized")]
      ELSE IF fault = "save" THEN [seen EXCEPT !.res = Fallback("store"), !.threw = "save"]
      ELSE [seen EXCEPT !.res = Ok(200), !.posts = ps \ {post}]

\* the handler of POST /api/posts/:id/comments
AddCommentOutcome(ps, user, idParam, body, fault) ==
  LET pid == CastPostOid(idParam)
      found == FindPostById(ps, pid)
      post == CHOOSE p \in found : TRUE
      errs == CommentErrors(body)
      none == NoPostOutcome(ps)
      seen == [none EXCEPT !.found = TRUE, !.author = post.author]
      pushed == [post EXCEPT !.comments =
                   Append(@, [user |-> user, content |-> body.content])]
  IN  IF fault = "find" THEN [none EXCEPT !.res = Fallback("store"), !.threw = "find"]
      ELSE IF pid = 0 THEN [none EXCEPT !.res = Fallback("CastError")]
      ELSE IF found = {} THEN [none EXCEPT !.res = Err(404, "Post not found")]
      ELSE IF errs # <<>> THEN [seen EXCEPT !.res = Invalid(errs)]
      ELSE IF fault = "save" THEN [seen EXCEPT !.res = Fallback("store"), !.threw = "save"]
      ELSE [seen EXCEPT !.res = Ok(201), !.posts = (ps \ {post}) \cup {pushed}]

(***************************************************************************)
(* Requests.  `last` is the request served last: its route, what each      *)
(* stage of the pipeline saw, and the response.                            *)
(***************************************************************************)
Idle ==
  [route |-> "none", hdr |-> NoHeader, user |-> 0, invoked |-> FALSE,
   threw |-> "none", res |-> NoRes]

\* the record of a request to a route behind authMiddleware: g is the gate's
\* result, h the handler's outcome (read only when the gate called next())
Served(route, hdr, g, h) ==
  [route |-> route, hdr |-> hdr, user |-> g.user, invoked |-> g.pass,
   threw |-> IF g.pass THEN h.threw ELSE IF g.threw THEN "gate" ELSE "none",
   res |-> IF g.pass THEN h.res ELSE g.res]

\* router.post('/register', ...)
Register(username, email, password, fault) ==
  LET o == RegisterOutcome(users, userSeq, clock, username, email, password, fault)
  IN  /\ o.saved # {} => userSeq < MaxUsers
      /\ (o.token \ issued) # {} => Cardinality(issued) < MaxTokens
      /\ users' = users \cup o.saved
      /\ userSeq' = userSeq + Cardinality(o.saved)
      /\ issued' = issued \cup o.token
      /\ last' = [Idle EXCEPT !.route = "register", !.invoked = TRUE, !.threw = o.threw,
                              !.res = o.res]
                 @@ [email |-> email, password |-> password, token |-> o.token]
      /\ UNCHANGED <<posts, postSeq, cats, catSeq, clock, inflight>>

\* router.post('/login', ...)
Login(email, password, fault) ==
  LET o == LoginOutcome(users, clock, email, password, fault)
  IN  /\ (o.token \ issued) # {} => Cardinality(issued) < MaxTokens
      /\ issued' = issued \cup o.token
      /\ last' = [Idle EXCEPT !.route = "login", !.invoked = TRUE, !.threw = o.threw,
                              !.res = o.res]
                 @@ [email |-> email, password |-> password, token |-> o.token]
      /\ UNCHANGED <<users, userSeq, posts, postSeq, cats, catSeq, clock, inflight>>

\* router.post('/', authMiddleware, ...) of the categories router
CreateCategory(hdr, name, fault) ==
  LET g == authMiddleware(hdr, users, clock, fault)
      h == CreateCategoryOutcome(cats, catSeq, name, fault)
  IN  /\ (g.pass /\ h.cats # cats) => catSeq < MaxCats
      /\ cats' = IF g.pass THEN h.cats ELSE cats
      /\ catSeq' = IF g.pass /\ h.cats # cats THEN catSeq + 1 ELSE catSeq
      /\ last' = Served("createCategory", hdr, g, h) @@ [name |-> name]
      /\ UNCHANGED <<users, userSeq, posts, postSeq, clock, issued, inflight>>

\* router.post('/', authMiddleware, ...) of the posts router
CreatePost(hdr, body, fault) ==
  LET g == authMiddleware(hdr, users, clock, fault)
      h == CreatePostOutcome(posts, postSeq, g.user, body, fault)
  IN  /\ (g.pass /\ h.posts # posts) => postSeq < MaxPosts
      /\ posts' = IF g.pass THEN h.posts ELSE posts
      /\ postSeq' = IF g.pass /\ h.posts # posts THEN postSeq + 1 ELSE postSeq
      /\ last' = Served("createPost", hdr, g, h)
                 @@ [body |-> body, found |-> FALSE, author |-> 0]
      /\ UNCHANGED <<users, userSeq, cats, catSeq, clock, issued, inflight>>

\* router.put('/:id', authMiddleware, ...)
UpdatePost(hdr, idParam, body, fault) ==
  LET g == authMiddleware(hdr, users, clock, fault)
      h == UpdatePostOutcome(posts, g.user, idParam, body, fault)
  IN  /\ posts' = IF g.pass THEN h.posts ELSE posts
      /\ last' = Served("updatePost", hdr, g, h)
                 @@ [id |-> idParam, body |-> body,
                     found |-> g.pass /\ h.found,
                     author |-> IF g.pass THEN h.author ELSE 0]
      /\ UNCHANGED <<users, userSeq, postSeq, cats, catSeq, clock, issued, inflight>>

\* router.delete('/:id', authMiddleware, ...)
DeletePost(hdr, idParam, fault) ==
  LET g == authMiddleware(hdr, users, clock, fault)
      h == DeletePostOutcome(posts, g.user, idParam, fault)
  IN  /\ posts' = IF g.pass THEN h.posts ELSE posts
      /\ last' = Served("deletePost", hdr, g, h)
                 @@ [id |-> idParam,
                     found |-> g.pass /\ h.found,
                     author |-> IF g.pass THEN h.author ELSE 0]
      /\ UNCHANGED <<users, userSeq, postSeq, cats, catSeq, clock, issued, inflight>>

\* router.post('/:id/comments', authMiddleware, ...)
AddComment(hdr, idParam, body, fault) ==
  LET g == authMiddleware(hdr, users, clock, fault)
      h == AddCommentOutcome(posts, g.user, idParam, body, fault)
  IN  /\ (g.pass /\ h.posts # posts) =>
           \A p \in FindPostById(posts, CastPostOid(idParam)) : Len(p.comments) < MaxComments
      /\ posts' = IF g.pass THEN h.posts ELSE posts
      /\ last' = Served("addComment", hdr, g, h)
                 @@ [id |-> idParam, body |-> body,
                     found |-> g.pass /\ h.found,
                     author |-> IF g.pass THEN h.author ELSE 0]
      /\ UNCHANGED <<users, userSeq, postSeq, cats, catSeq, clock, issued, inflight>>

\* time passes (jwt.verify reads the clock)
Tick ==
  /\ clock < MaxClock
  /\ clock' = clock + 1
  /\ last' = [Idle EXCEPT !.route = "tick"]
  /\ UNCHANGED <<users, userSeq, posts, postSeq, cats, catSeq, issued, inflight>>

\* an identity is removed from the credential store
DropIdentity(uid) ==
  /\ FindUserById(users, uid) # {}
  /\ users' = users \ FindUserById(users, uid)
  /\ last' = [Idle EXCEPT !.route = "drop"]
  /\ UNCHANGED <<userSeq, posts, postSeq, cats, catSeq, clock, issued, inflight>>

(***************************************************************************)
(* Inputs.                                                                 *)
(***************************************************************************)
Usernames == {"al", "alice"}
Emails == {"a@x.io", "b@x.io", "nope"}
RegPasswords == {"secret1", "abc"}
LoginPasswords == {"secret1", "wrong-pw", ""}
Faults == {"none", "gate", "find", "save"}

\* a segment that is no JWT
Garbage ==
  LET payload == [id |-> "", iat |-> 0, exp |-> 0]
  IN  [wf |-> FALSE, payload |-> payload, sig |-> Sign(payload, "none")]

\* a token signed with a key that is not the secret
Forged(uid) ==
  LET payload == [id |-> UserOidStr(uid), iat |-> 0, exp |-> MaxClock + TokenTTL + 1]
  IN  [wf |-> TRUE, payload |-> payload, sig |-> Sign(payload, "guess")]

\* an issued token whose expiry was rewritten, its signature kept
Tampered(t) == [t EXCEPT !.payload.exp = @ + TokenTTL]

Bearer(t) == [present |-> TRUE, scheme |-> "Bearer", rest |-> <<t>>]

\* the headers a client sends: none, "", "Bearer", other schemes, and the
\* bearer scheme with an issued, rewritten, forged or malformed token
Headers ==
  {NoHeader,
   [present |-> TRUE, scheme |-> "", rest |-> <<>>],
   [present |-> TRUE, scheme |-> "Bearer", rest |-> <<>>],
   Bearer(Garbage), Bearer(Forged(1))}
  \cup {Bearer(t) : t \in issued}
  \cup {Bearer(Tampered(t)) : t \in issued}
  \cup {[present |-> TRUE, scheme |-> sch, rest |-> <<t>>] :
          sch \in {"Basic", "bearer"}, t \in issued}

(***************************************************************************)
(* The auth router and the gate, from the empty store.                     *)
(***************************************************************************)
Init ==
  /\ users = {} /\ userSeq = 0
  /\ posts = {} /\ postSeq = 0
  /\ cats = {} /\ catSeq = 0
  /\ clock = 0
  /\ issued = {}
  /\ last = Idle
  /\ inflight = <<>>

NextAuth ==
  \/ \E n \in Usernames, e \in Emails, p \in RegPasswords, f \in Faults \ {"gate"} :
       Register(n, e, p, f)
  \/ \E e \in Emails, p \in LoginPasswords, f \in Faults \ {"gate"} : Login(e, p, f)
  \/ \E h \in Headers, f \in Faults : CreateCategory(h, "a", f)
  \/ \E u \in 1..MaxUsers : DropIdentity(u)

SpecAuth == Init /\ [][NextAuth]_vars

(***************************************************************************)
(* Token expiry: one identity, its tokens and the clock.                   *)
(***************************************************************************)
NextToken ==
  \/ \E f \in {"none"} : Register("alice", "a@x.io", "secret1", f)
  \/ \E f \in {"none"} : Login("a@x.io", "secret1", f)
  \/ \E t \in issued, f \in {"none", "gate"} : CreateCategory(Bearer(t), "a", f)
  \/ \E t \in issued, f \in {"none", "gate"} : CreateCategory(Bearer(Tampered(t)), "a", f)
  \/ Tick

SpecToken == Init /\ [][NextToken]_vars

(***************************************************************************)
(* The posts router behind the gate, from a store holding two registered   *)
(* identities and the tokens their registrations issued.                   *)
(***************************************************************************)
\* a title of 101 characters
LongTitle ==
  "xxxxxxxxxxxxxxxxxxxxxxxxxxxxxxxxxxxxxxxxxxxxxxxxxxxxxxxxxxxxxxxxxxxxxxxxxxxxxxxxxxxxxxxxxxxxxxxxxxxxx"

CreateBodies ==
  {[title |-> "t1", content |-> "c", category |-> "k"],
   [title |-> "t1", content |-> "c", category |-> "k", author |-> UserOidStr(2)],
   [title |-> LongTitle, content |-> "c", category |-> "k"]}

UpdateBodies ==
  {[title |-> "t2"], [title |-> LongTitle], [author |-> UserOidStr(2)]}

CommentBodies == {[content |-> "hi"], [content |-> ""]}

\* the :id parameters: the first post, a post that never exists, a slug
IdParams == {PostOidStr(1), PostOidStr(MaxPosts + 1), "my-post"}

SeedUsers ==
  {[id |-> n, username |-> "alice", email |-> (<<"a@x.io", "b@x.io">>)[n],
    password |-> Hash("secret1")] : n \in 1..2}

InitSeeded ==
  /\ users = SeedUsers /\ userSeq = 2
  /\ posts = {} /\ postSeq = 0
  /\ cats = {} /\ catSeq = 0
  /\ clock = 0
  /\ issued = {generateToken(n, 0) : n \in 1..2}
  /\ last = Idle
  /\ inflight = <<>>

\* the headers of the clients that hold a token
OwnHeaders == {Bearer(t) : t \in issued}

\* the store operations of a handler that may reject
HandlerFaults == {"none", "find", "save"}

NextPosts ==
  \/ \E h \in OwnHeaders, b \in CreateBodies, f \in {"none", "save"} : CreatePost(h, b, f)
  \/ \E h \in OwnHeaders, i \in IdParams, b \in UpdateBodies, f \in HandlerFaults :
       UpdatePost(h, i, b, f)
  \/ \E h \in OwnHeaders, i \in IdParams, f \in HandlerFaults : DeletePost(h, i, f)
  \/ \E h \in OwnHeaders, i \in IdParams, b \in CommentBodies, f \in HandlerFaults :
       AddComment(h, i, b, f)

SpecPosts == InitSeeded /\ [][NextPosts]_vars

(***************************************************************************)
(* Every route behind the gate, with every header.                         *)
(***************************************************************************)
NextGate ==
  \/ \E h \in Headers, f \in {"none", "gate"} :
       CreatePost(h, [title |-> "t1", content |-> "c", category |-> "k"], f)
  \/ \E h \in Headers, f \in {"none", "gate"} :
       UpdatePost(h, PostOidStr(1), [title |-> "t2"], f)
  \/ \E h \in Headers, f \in {"none", "gate"} : DeletePost(h, PostOidStr(1), f)
  \/ \E h \in Headers, f \in {"none", "gate"} :
       AddComment(h, PostOidStr(1), [content |-> "hi"], f)
  \/ \E h \in Headers, f \in {"none", "gate"} : CreateCategory(h, "a", f)

SpecGate == InitSeeded /\ [][NextGate]_vars

(***************************************************************************)
(* GET /api/posts: pagination.  A query parameter is <<>> when absent and  *)
(* <<text>> when given.                                                    *)
(***************************************************************************)
DigitChars == <<"0", "1", "2", "3", "4", "5", "6", "7", "8", "9">>

IsDigit(c) == \E i \in 1..Len(DigitChars) : DigitChars[i] = c

DigitVal(c) == (CHOOSE i \in 1..Len(DigitChars) : DigitChars[i] = c) - 1

\* the digits at the head of s, read as a number; nan when there is none
RECURSIVE ParseDigits(_, _, _)
ParseDigits(s, acc, any) ==
  IF Len(s) > 0 /\ IsDigit(SubSeq(s, 1, 1))
  THEN ParseDigits(SubSeq(s, 2, Len(s)), 10 * acc + DigitVal(SubSeq(s, 1, 1)), TRUE)
  ELSE [nan |-> ~any, v |-> acc]

\* parseInt(text): leading blanks, a sign, digits; NaN otherwise
RECURSIVE parseInt(_)
parseInt(s) ==
  IF Len(s) > 0 /\ SubSeq(s, 1, 1) = " " THEN parseInt(SubSeq(s, 2, Len(s)))
  ELSE IF Len(s) > 0 /\ SubSeq(s, 1, 1) = "-"
  THEN LET d == ParseDigits(SubSeq(s, 2, Len(s)), 0, FALSE)
       IN  [nan |-> d.nan, v |-> 0 - d.v]
  ELSE IF Len(s) > 0 /\ SubSeq(s, 1, 1) = "+"
  THEN ParseDigits(SubSeq(s, 2, Len(s)), 0, FALSE)
  ELSE ParseDigits(s, 0, FALSE)

\* parseInt(req.query.x) || dflt: NaN (also of an absent parameter) and 0
\* are falsy
ParamOr(param, dflt) ==
  LET n == IF param = <<>> THEN [nan |-> TRUE, v |-> 0] ELSE parseInt(param[1])
  IN  IF n.nan \/ n.v = 0 THEN dflt ELSE n.v

\* the quotient rounded down
CeilTruncated(a, b) == a \div b

\* Math.ceil(a / b), b # 0
Ceil(a, b) ==
  LET n == IF b < 0 THEN 0 - a ELSE a
      d == IF b < 0 THEN 0 - b ELSE b
  IN  IF n >= 0 THEN (n + d - 1) \div d ELSE 0 - ((0 - n) \div d)

\* filter = {}; if (category) filter.category = category
Matching(ps, category) ==
  IF category = <<>> \/ category[1] = "" THEN ps
  ELSE {p \in ps : p.category = category[1]}

\* .sort({ createdAt: -1 }): the newest first
RECURSIVE SortDesc(_)
SortDesc(ps) ==
  IF ps = {} THEN <<>>
  ELSE LET newest == CHOOSE p \in ps : \A q \in ps : q.createdAt <= p.createdAt
       IN  <<newest>> \o SortDesc(ps \ {newest})

\* the cursor of find(filter).skip(skip).limit(limit).sort(...): a negative
\* limit asks for that many documents in a single batch
Window(sorted, skip, limit) ==
  LET n == IF limit < 0 THEN 0 - limit ELSE limit
      to == IF skip + n < Len(sorted) THEN skip + n ELSE Len(sorted)
  IN  SubSeq(sorted, skip + 1, to)

\* the handler of GET /api/posts
ListPostsOutcome(ps, query, fault) ==
  LET page == ParamOr(query.page, DefaultPage)
      limit == ParamOr(query.limit, DefaultLimit)
      matching == Matching(ps, query.category)
      skip == (page - 1) * limit
      none == [res |-> NoRes, threw |-> "none", items |-> <<>>,
               pagination |-> [total |-> 0, page |-> 0, pages |-> 0]]
  IN  IF fault = "find" THEN [none EXCEPT !.res = Fallback("store"), !.threw = "find"]
      ELSE IF skip < 0 THEN [none EXCEPT !.res = Fallback("skip must be non-negative")]
      ELSE IF fault = "count" THEN [none EXCEPT !.res = Fallback("store"), !.threw = "count"]
      ELSE [res |-> Ok(200), threw |-> "none",
            items |-> [i \in DOMAIN Window(SortDesc(matching), skip, limit) |->
                         Window(SortDesc(matching), skip, limit)[i].id],
            pagination |-> [total |-> Cardinality(matching), page |-> page,
                            pages |-> Ceil(Cardinality(matching), limit)]]

\* router.get('/', ...) of the posts router
ListPosts(query, fault) ==
  LET o == ListPostsOutcome(posts, query, fault)
  IN  /\ last' = [Idle EXCEPT !.route = "listPosts", !.invoked = TRUE, !.threw = o.threw,
                              !.res = o.res]
                 @@ [query |-> query, items |-> o.items, pagination |-> o.pagination]
      /\ UNCHANGED <<users, userSeq, posts, postSeq, cats, catSeq, clock, issued, inflight>>

\* the texts of a numeric query parameter
NumTexts == {DigitChars[n + 1] : n \in 0..MaxParam} \cup {"-1", "abc", "2x", " 2"}

NumParams == {<<>>} \cup {<<t>> : t \in NumTexts}

Queries ==
  [page : NumParams, limit : NumParams, category : {<<>>, <<"k">>, <<"z">>}]

\* the n-th post created, every third one in category "z"
SeedPost(n) ==
  [id |-> n, title |-> "t1", content |-> "c",
   category |-> IF n % 3 = 0 THEN "z" ELSE "k",
   author |-> 1, comments |-> <<>>, createdAt |-> n]

\* the store after n posts were created
InitList ==
  /\ users = SeedUsers /\ userSeq = 2
  /\ \E n \in 0..MaxTotal : posts = {SeedPost(i) : i \in 1..n} /\ postSeq = n
  /\ cats = {} /\ catSeq = 0
  /\ clock = 0
  /\ issued = {generateToken(n, 0) : n \in 1..2}
  /\ last = Idle
  /\ inflight = <<>>

\* one request is served against the store drawn
NextList ==
  /\ last = Idle
  /\ \E q \in Queries, f \in {"none", "find", "count"} : ListPosts(q, f)

SpecList == InitList /\ [][NextList]_vars

(***************************************************************************)
(* POST /api/categories with requests in flight: a handler runs up to its  *)
(* await of findOne, then up to its await of save, and other requests run  *)
(* in between.                                                             *)
(***************************************************************************)
Remove(seq, i) == SubSeq(seq, 1, i - 1) \o SubSeq(seq, i + 1, Len(seq))

\* the gate and the validation of a request; a request that passes both
\* awaits Category.findOne
CategoryArrive(hdr, name) ==
  LET g == authMiddleware(hdr, users, clock, "none")
      errs == CategoryErrors(name)
      early == [res |-> Invalid(errs), threw |-> "none"]
  IN  /\ (g.pass /\ errs = <<>>) => Len(inflight) < MaxInflight
      /\ inflight' = IF g.pass /\ errs = <<>>
                     THEN Append(inflight, [hdr |-> hdr, name |-> name, user |-> g.user,
                                            pc |-> "findOne"])
                     ELSE inflight
      /\ last' = IF g.pass /\ errs = <<>> THEN last
                 ELSE Served("createCategory", hdr, g, early) @@ [name |-> name]
      /\ UNCHANGED <<users, userSeq, posts, postSeq, cats, catSeq, clock, issued>>

\* findOne resolves: the handler answers 400 or goes on to await save
CategoryFound(i) ==
  LET r == inflight[i]
      chk == CategoryCheck(cats, r.name, "none")
  IN  /\ r.pc = "findOne"
      /\ inflight' = IF chk.res = NoRes THEN [inflight EXCEPT ![i].pc = "save"]
                     ELSE Remove(inflight, i)
      /\ last' = IF chk.res = NoRes THEN last
                 ELSE [Idle EXCEPT !.route = "createCategory", !.hdr = r.hdr,
                                   !.user = r.user, !.invoked = TRUE, !.res = chk.res]
                      @@ [name |-> r.name]
      /\ UNCHANGED <<users, userSeq, posts, postSeq, cats, catSeq, clock, issued>>

\* save resolves or rejects: the handler answers 201 or calls next(err)
CategorySaved(i) ==
  LET r == inflight[i]
      o == CategorySave(cats, catSeq, r.name, "none")
  IN  /\ r.pc = "save"
      /\ o.cats # cats => catSeq < MaxCats
      /\ cats' = o.cats
      /\ catSeq' = IF o.cats # cats THEN catSeq + 1 ELSE catSeq
      /\ inflight' = Remove(inflight, i)
      /\ last' = [Idle EXCEPT !.route = "createCategory", !.hdr = r.hdr, !.user = r.user,
                              !.invoked = TRUE, !.res = o.res]
                 @@ [name |-> r.name]
      /\ UNCHANGED <<users, userSeq, posts, postSeq, clock, issued>>

NextConc ==
  \/ \E h \in {NoHeader} \cup OwnHeaders, n \in {"", "a", "b"} : CategoryArrive(h, n)
  \/ \E i \in DOMAIN inflight : CategoryFound(i)
  \/ \E i \in DOMAIN inflight : CategorySaved(i)

SpecConc == InitSeeded /\ [][NextConc]_vars

(***************************************************************************)
(* The whole API from the empty store.  The specifications above are this  *)
(* one with the requests narrowed to a router and its inputs.              *)
(***************************************************************************)
Next ==
  \/ NextAuth
  \/ NextToken
  \/ NextPosts
  \/ NextGate
  \/ NextList
  \/ NextConc

Spec == Init /\ [][Next]_vars

(***************************************************************************)
(* Properties.                                                             *)
(***************************************************************************)
store == <<users, userSeq, posts, postSeq, cats, catSeq>>

ProtectedRoutes == {"createPost", "updatePost", "deletePost", "addComment", "createCategory"}

NoTokenProvided == Err(401, "No token provided")
NotAuthorized == Err(401, "Not authorized")
UserNotFound == Err(401, "User not found")
Unauthorized == Err(403, "Unauthorized")
PostNotFound == Err(404, "Post not found")
InvalidCredentials == Err(401, "Invalid credentials")

\* the authorization header is absent or does not start with "Bearer"
LacksBearer(hdr) == ~hdr.present \/ ~StartsWith(hdr.scheme, "Bearer")

\* the answer to an update or delete whose handler fetched a post of
\* another author
C1_State ==
  (/\ last.route \in {"updatePost", "deletePost"}
   /\ last.invoked
   /\ last.found
   /\ UserOidStr(last.author) # UserOidStr(last.user))
  => last.res = Unauthorized

C1_Step ==
  (/\ last'.route \in {"updatePost", "deletePost"}
   /\ last'.invoked
   /\ last'.threw = "none"
   /\ \E p \in posts : /\ PostOidStr(p.id) = last'.id
                       /\ UserOidStr(p.author) # UserOidStr(last'.user))
  => (last'.res = Unauthorized /\ posts' = posts)

\* C1: an update or delete that passed the gate and targets an existing
\* post whose author is not the acting identity is answered 403
\* 'Unauthorized', and the posts are left as they were, whatever the body.
C1_NonOwnerForbidden == [](C1_State) /\ [][C1_Step]_vars

C1_Witness ==
  /\ last.route = "updatePost"
  /\ last.res = Unauthorized
  /\ last.body = [title |-> "t2"]
  /\ \E p \in posts : PostOidStr(p.id) = last.id /\ p.author # last.user /\ p.title = "t1"

\* C2: no request changes the author of an existing post.
C2_AuthorImmutable ==
  [][\A p \in posts : \A q \in posts' : q.id = p.id => q.author = p.author]_vars

\* the answer of the gate to a header without the bearer marker
C3_State ==
  /\ last.route \in ProtectedRoutes =>
       /\ LacksBearer(last.hdr) <=> last.res = NoTokenProvided
       /\ LacksBearer(last.hdr) => ~last.invoked /\ last.user = 0
  /\ last.res.error = "No token provided" =>
       last.route \in ProtectedRoutes /\ LacksBearer(last.hdr)

C3_Step ==
  (last'.route \in ProtectedRoutes /\ LacksBearer(last'.hdr)) => UNCHANGED store

\* C3: on a route behind the gate the answer is 401 'No token provided',
\* with the handler not invoked and the store unchanged, exactly when the
\* authorization header is absent or does not start with "Bearer"; no other
\* request gets that answer.
C3_NoTokenProvided == [](C3_State) /\ [][C3_Step]_vars

C3_Witness ==
  /\ last.route = "updatePost"
  /\ last.hdr.present /\ last.hdr.scheme = "Basic" /\ last.hdr.rest[1] \in issued
  /\ last.res = NoTokenProvided
  /\ \E p \in posts : PostOidStr(p.id) = last.id

\* C4: on a route behind the gate a bearer token that was not issued, or is
\* presented at or after its expiry, is answered 401 'Not authorized' with
\* no identity attached and the handler not invoked; an issued token
\* presented before its expiry is never answered 'Not authorized'.
C4_TokenVerification ==
  (last.route \in ProtectedRoutes /\ ~LacksBearer(last.hdr) /\ Len(last.hdr.rest) > 0) =>
    LET t == last.hdr.rest[1]
    IN  /\ (t \notin issued \/ clock >= t.payload.exp) =>
             last.res = NotAuthorized /\ ~last.invoked /\ last.user = 0
        /\ (t \in issued /\ clock < t.payload.exp) => last.res # NotAuthorized

\* C5: on a route behind the gate an issued, unexpired token whose identity
\* is gone from the credential store is answered 401 'User not found' with
\* the handler not invoked; while the identity is there the gate attaches
\* it, answers nothing and the handler runs.
C5_IdentityLookup ==
  (/\ last.route \in ProtectedRoutes
   /\ ~LacksBearer(last.hdr)
   /\ Len(last.hdr.rest) > 0
   /\ last.hdr.rest[1] \in issued
   /\ clock < last.hdr.rest[1].payload.exp) =>
    LET uid == CastUserOid(last.hdr.rest[1].payload.id)
    IN  IF FindUserById(users, uid) = {}
        THEN last.res = UserNotFound /\ ~last.invoked
        ELSE last.invoked /\ last.user = uid /\ last.res.status # 401

\* C6: an update or delete of a post that does not exist is answered 404
\* 'Post not found' whoever asks, and an update whose body violates a field
\* constraint is answered 400 with the violations, also when the acting
\* identity is not the author.
C6_CheckOrder ==
  /\ (/\ last.route \in {"updatePost", "deletePost"}
      /\ last.invoked
      /\ last.threw = "none"
      /\ CastPostOid(last.id) # 0
      /\ ~last.found) => last.res = PostNotFound
  /\ (/\ last.route = "updatePost"
      /\ last.invoked
      /\ last.found
      /\ UpdatePostErrors(last.body) # <<>>) =>
       last.res = Invalid(UpdatePostErrors(last.body))

\* C7: a request one of whose store operations failed is handed to the
\* fallback handler, the identity lookup of the gate included.
C7_StoreFailureFallsBack ==
  last.threw # "none" => last.res.via = "next"

\* C8: no two categories share a name, and a create-category request whose
\* name is taken is answered 400 'Category already exists': the uniqueness
\* conflict never reaches the fallback handler.
C8_CategoryConflict ==
  /\ \A c \in cats : \A d \in cats : c.name = d.name => c = d
  /\ last.route = "createCategory" => last.res # Fallback("E11000 duplicate key")

\* the answer to a login, and the token it issues
C9_State ==
  last.route = "login" =>
    LET known == \E u \in users : u.email = last.email
        match == \E u \in users : u.email = last.email /\ u.password = Hash(last.password)
    IN  /\ (/\ LoginErrors(last.email, last.password) = <<>>
            /\ last.threw = "none"
            /\ ~(known /\ match)) => last.res = InvalidCredentials
        /\ last.token # {} <=> (last.res.success /\ known /\ match)
        /\ last.token \subseteq issued

C9_Step == last'.route = "login" => UNCHANGED store

\* C9: a login that passes validation and whose lookup completes is
\* answered 401 'Invalid credentials' with no token both for an unknown
\* email and for a password that does not match; a token is issued only to
\* a known email with its password; a login changes nothing in the store.
C9_LoginUniform == [](C9_State) /\ [][C9_Step]_vars

C9_Witness ==
  /\ last.route = "login"
  /\ last.res = InvalidCredentials
  /\ \E u \in users : u.email = last.email /\ u.password # Hash(last.password)

\* the number of matching posts newer than p
Newer(ps, p) == Cardinality({q \in ps : q.createdAt > p.createdAt})

\* the response lists total, page and pages = ceil(total/limit), and its
\* items are the posts at positions (page-1)*limit+1 .. page*limit, newest
\* first
Paginated(page, limit) ==
  LET matching == Matching(posts, last.query.category)
      total == Cardinality(matching)
      first == (page - 1) * limit
      rest == IF total > first THEN total - first ELSE 0
  IN  /\ last.res = Ok(200)
      /\ last.pagination.total = total
      /\ last.pagination.page = page
      /\ last.pagination.pages * limit >= total
      /\ (last.pagination.pages - 1) * limit < total
      /\ Len(last.items) <= limit
      /\ Len(last.items) = IF rest < limit THEN rest ELSE limit
      /\ \A k \in 1..Len(last.items) :
           \E p \in matching : p.id = last.items[k] /\ Newer(matching, p) = first + k - 1

\* C10 as stated: whatever page and limit are given.
C10_AnyValues ==
  (last.route = "listPosts" /\ last.threw = "none") =>
    Paginated(ParamOr(last.query.page, DefaultPage), ParamOr(last.query.limit, DefaultLimit))

\* C10: for page and limit values that do not parse to a negative number
\* (absent, non-numeric and zero values give page 1 and limit 10), the
\* response reports {total, page, pages = ceil(total/limit)} and the items
\* at positions (page-1)*limit+1 .. page*limit of the newest-first order.
C10_Pagination ==
  (/\ last.route = "listPosts"
   /\ last.threw = "none"
   /\ ParamOr(last.query.page, DefaultPage) > 0
   /\ ParamOr(last.query.limit, DefaultLimit) > 0) =>
    Paginated(ParamOr(last.query.page, DefaultPage), ParamOr(last.query.limit, DefaultLimit))

C10_Witness ==
  /\ last.route = "listPosts"
  /\ last.query = [page |-> <<"2">>, limit |-> <<"5">>, category |-> <<>>]
  /\ Cardinality(posts) = 12
  /\ last.pagination = [total |-> 12, page |-> 2, pages |-> 3]
  /\ last.items = <<7, 6, 5, 4, 3>>

====
